---- MODULE Spec2Model ----
(***************************************************************************)
(* The sidecar lifecycle supervisor of ttai (src-tauri): SidecarManager    *)
(* (sidecar.rs), the tauri command handlers that share it behind one async *)
(* mutex (commands.rs), and the auto-start task and the window-close hook  *)
(* of main.rs.                                                             *)
(*                                                                         *)
(* A caller (the auto-start task, a command invocation, the close hook)    *)
(* first awaits the AppState mutex and then runs the calls of its handler  *)
(* one step at a time; the guard is dropped when the handler returns.      *)
(* The operating system and the network are the environment: a spawn, a    *)
(* kill, a wait and an HTTP request each have the outcomes the call can    *)
(* return, a child may exit on its own, and the fixed address              *)
(* localhost:8080 is served by whichever process has bound it.             *)
(***************************************************************************)
EXTENDS Integers, FiniteSets, TLC

\* ---------------------------------------------------------------- bounds
\* Number of concurrent command invocations (webview callers).
NumCmd == 1
\* Number of child processes the model lets start() spawn.
MaxSpawn == 2

\* ------------------------------------------------------ program constants
max_attempts == 50

\* ------------------------------------------------------------ identifiers
NoPid == 0
Pids == 1..MaxSpawn
\* Some other program on the machine that may listen on localhost:8080.
Foreign == -1

NoTask == -1
AutoTask == 0
CmdTasks == 1..NumCmd
CloseTask == NumCmd + 1
Tasks == {AutoTask} \cup CmdTasks \cup {CloseTask}

Commands ==
    { "start_server", "stop_server", "is_server_running", "reconnect_server",
      "mcp_ping", "mcp_login", "mcp_logout", "mcp_get_auth_status" }

\* main.rs 40-53 and 62-67: the auto-start task and the close hook.
Handlers == Commands \cup {"auto_start", "close"}

\* commands.rs 11, 33 and main.rs 42: the handlers that call manager.start().
Starters == {"start_server", "reconnect_server", "auto_start"}

VARIABLES
    child,          \* SidecarManager.child: the Option<Child> slot (NoPid = None)
    child_guard,    \* holder of the std Mutex around the slot
    lock,           \* holder of the tokio Mutex of AppState
    tasks,          \* per caller: its handler, its position and its locals
    procs,          \* per process id: "none", "running", "exited", "reaped"
    taken,          \* processes whose handle stop() has taken out of the slot
    listener,       \* who serves base_url (NoPid = nobody)
    lifecycle       \* history: "start" after a start() that succeeded, "stop"
                    \* after a call of stop(), "stop_again" after a further one

vars == <<child, child_guard, lock, tasks, procs, taken, listener, lifecycle>>

\* A caller's record: its handler op, its position pc, and the handler's
\* locals: the polls and sleeps of wait_for_ready, the process pid that start()
\* spawned, the process old that stop() took out of the slot with the outcomes
\* of its kill and wait, the number of HTTP requests it has sent, what its
\* last request met (resp, by: who answered it, and body: what the decoding
\* of the answer found), and the reply res. early marks a caller that was
\* already waiting for the lock when the window was asked to close; inside the
\* handler the mark is kept only when the lock was granted after the close
\* hook had completed, and only until the handler's start().
IdleTask ==
    [ pc |-> "idle", op |-> "none", polls |-> 0, sleeps |-> 0,
      pid |-> NoPid, old |-> NoPid, kill |-> "none", wait |-> "none",
      sent |-> 0, resp |-> "none", by |-> NoPid, body |-> "none", res |-> "none",
      early |-> FALSE ]

\* main.rs setup: SidecarManager::new leaves the slot empty, and the
\* auto-start task is spawned before any command can be invoked.
Init ==
    /\ child = NoPid
    /\ child_guard = NoTask
    /\ lock = NoTask
    /\ tasks = [t \in Tasks |->
                  IF t = AutoTask
                  THEN [IdleTask EXCEPT !.pc = "waiting", !.op = "auto_start"]
                  ELSE IdleTask]
    /\ procs = [p \in Pids |-> "none"]
    /\ taken = {}
    /\ listener = NoPid
    /\ lifecycle = "none"

\* ------------------------------------------------------------ environment
\* The process ids start() has not used yet; spawn takes the smallest.
Unused == { p \in Pids : procs[p] = "none" }
NextPid == CHOOSE p \in Unused : \A q \in Unused : p <= q

\* A process that is no longer running serves no port.
Unbind(p) == IF listener = p THEN NoPid ELSE listener

\* The child exits on its own (a crash, or the end of its main).
ChildExit(p) ==
    /\ procs[p] = "running"
    /\ procs' = [procs EXCEPT ![p] = "exited"]
    /\ listener' = Unbind(p)
    /\ UNCHANGED <<child, child_guard, lock, tasks, taken, lifecycle>>

\* The child (spawned with --transport sse --port 8080) binds the port and
\* starts to serve; it cannot while something else holds the port.
ChildBind(p) ==
    /\ procs[p] = "running"
    /\ listener = NoPid
    /\ listener' = p
    /\ UNCHANGED <<child, child_guard, lock, tasks, procs, taken, lifecycle>>

\* Another program binds, or releases, localhost:8080.
ForeignBind ==
    /\ listener = NoPid
    /\ listener' = Foreign
    /\ UNCHANGED <<child, child_guard, lock, tasks, procs, taken, lifecycle>>

ForeignRelease ==
    /\ listener = Foreign
    /\ listener' = NoPid
    /\ UNCHANGED <<child, child_guard, lock, tasks, procs, taken, lifecycle>>

\* What `.send().await` can yield for a request to base_url: a transport
\* error (nothing listens, or the per-call timeout fires), or a response of
\* whoever listens, with a status inside or outside the success class.
Send == IF listener = NoPid THEN {"error"} ELSE {"error", "2xx", "5xx"}
\* What `.json().await` finds in the body of a response.
Body == {"valid", "malformed"}

\* ------------------------------------------------------- SidecarManager
\* sidecar.rs 45: `child_guard.is_some()`
is_some(slot) == slot # NoPid

\* Mutant of is_running: true only once the child serves its port.
is_running_when_ready == is_some(child) /\ listener = child

\* sidecar.rs 188-190: the slot's mutex is never poisoned in this model (no
\* call made under child_guard panics), so unwrap_or(false) is not taken.
is_running == is_some(child)

\* Mutant of already_running: start() looks at the process (try_wait) and
\* spawns again over the handle of a child that has exited.
already_running_and_alive == is_some(child) /\ procs[child] = "running"

\* Mutant of already_running: start() without its check of the slot.
already_running_unchecked == FALSE

\* sidecar.rs 45-47: start() refuses while the slot holds a handle.
already_running == is_some(child)

\* Mutant of take: the handle is borrowed (as_mut) and stays in the slot.
take_borrowed(slot) == slot

\* sidecar.rs 179: Option::take leaves None in the slot.
take(slot) == NoPid

\* Mutant of start: an idempotent start(), Ok when a child is already there.
start_idempotent(res, p) ==
    /\ child_guard = NoTask
    /\ IF is_some(child)
       THEN /\ res = "Ok"
            /\ p = NoPid
            /\ UNCHANGED <<child, procs, lifecycle>>
       ELSE \/ /\ res = "SpawnFailed"
               /\ p = NoPid
               /\ UNCHANGED <<child, procs, lifecycle>>
            \/ /\ res = "Ok"
               /\ Unused # {}
               /\ p = NextPid
               /\ procs' = [procs EXCEPT ![p] = "running"]
               /\ child' = p
               /\ lifecycle' = "start"

\* sidecar.rs 42-72: the outcome res of start() and the process p it spawned.
start(res, p) ==
    /\ child_guard = NoTask
    /\ IF already_running
       THEN /\ res = "AlreadyRunning"
            /\ p = NoPid
            /\ UNCHANGED <<child, procs, lifecycle>>
       ELSE \/ /\ res = "SpawnFailed"
               /\ p = NoPid
               /\ UNCHANGED <<child, procs, lifecycle>>
            \/ /\ res = "Ok"
               /\ Unused # {}
               /\ p = NextPid
               /\ procs' = [procs EXCEPT ![p] = "running"]
               /\ child' = p
               /\ lifecycle' = "start"

\* Mutant of is_success: the status of the response is not looked at.
is_success_any_status(resp) == TRUE

\* sidecar.rs 102: `response.status().is_success()`
is_success(resp) == resp = "2xx"

\* sidecar.rs 91-107
health_check(resp) ==
    IF resp = "error" THEN "Unreachable"
    ELSE IF is_success(resp) THEN "Ok"
    ELSE "HealthCheckFailed"

\* Mutant of remote_call: a body that does not decode gives a default value
\* (unwrap_or_default) instead of an error.
remote_call_defaulting(variant, resp, body) ==
    IF resp = "error" THEN "RequestFailed" ELSE variant

\* sidecar.rs 110-174: get_auth_status, login and logout have one shape: a
\* transport error is "Request failed", otherwise the body is decoded
\* whatever the status is.
remote_call(variant, resp, body) ==
    IF resp = "error" THEN "RequestFailed"
    ELSE IF body = "valid" THEN variant
    ELSE "DecodeFailed"

\* Mutant of in_range: an inclusive range, 0..=max_attempts.
in_range_inclusive(attempt) == attempt <= max_attempts

\* sidecar.rs 79: `for attempt in 0..max_attempts`
in_range(attempt) == attempt < max_attempts

\* Mutant of is_ok: any response at all counts as ready.
is_ok_any_response(res) == res # "Unreachable"

\* sidecar.rs 80: `self.health_check().await.is_ok()`
is_ok(res) == res = "Ok"

\* -------------------------------------------------- handlers' control flow
\* commands.rs / main.rs: the first call a handler makes once it holds the lock.
FirstCall(op) ==
    CASE op \in {"start_server", "auto_start"} -> "start"
      [] op \in {"stop_server", "reconnect_server", "close"} -> "stop"
      [] op = "is_server_running" -> "is_running"
      [] op = "mcp_ping" -> "health_check"
      [] op = "mcp_login" -> "login"
      [] op = "mcp_logout" -> "logout"
      [] op = "mcp_get_auth_status" -> "get_auth_status"

\* Mutant of NextCall: reconnect_server and the auto-start task ignore the
\* result of start(), as reconnect_server ignores that of stop().
NextCall_ignoring_start(op, call, res) ==
    CASE op = "reconnect_server" /\ call = "stop" -> "start"
      [] op \in {"reconnect_server", "auto_start"} /\ call = "start" -> "wait_for_ready"
      [] OTHER -> "return"

\* Mutant of NextCall: a handler whose wait_for_ready gave up cleans up with
\* stop() before it returns.
NextCall_stopping_unready(op, call, res) ==
    CASE op = "reconnect_server" /\ call = "stop" /\ res # "NotReady" -> "start"
      [] op \in {"reconnect_server", "auto_start"} /\ call = "start" /\ res = "Ok"
            -> "wait_for_ready"
      [] call = "wait_for_ready" /\ res = "NotReady" -> "stop"
      [] OTHER -> "return"

\* What follows a call that ended with res: the next call, or "return".
\* reconnect_server ignores stop's result and leaves on start's or
\* wait_for_ready's error (`?`); the auto-start task returns when start fails.
NextCall(op, call, res) ==
    CASE op = "reconnect_server" /\ call = "stop" -> "start"
      [] op \in {"reconnect_server", "auto_start"} /\ call = "start" /\ res = "Ok"
            -> "wait_for_ready"
      [] OTHER -> "return"

\* commands.rs 45: mcp_ping answers "pong" for Ok(()).
Reply(op, res) == IF op = "mcp_ping" /\ res = "Ok" THEN "pong" ELSE res

\* The task goes on to its next call, or has its reply and is about to
\* return (the MutexGuard `manager` is still alive at that point).
Continue(t, rec, call, res) ==
    LET nxt == NextCall(rec.op, call, res) IN
    tasks' = [tasks EXCEPT ![t] =
                IF nxt = "return"
                THEN [rec EXCEPT !.pc = "return", !.res = Reply(rec.op, res)]
                ELSE [rec EXCEPT !.pc = nxt]]

\* The handler's record after a request that met resp: a response comes from
\* whoever listens on base_url at that moment.
Met(rec, resp) ==
    [rec EXCEPT !.resp = resp, !.by = IF resp = "error" THEN NoPid ELSE listener]

\* The task is inside its handler, about to make this call.
At(t, call) == tasks[t].pc = call

\* ------------------------------------------------------------- callers
\* The webview invokes a command: every handler starts with
\* `state.lock().await`. Which command it is shows only once its handler
\* runs, so the model draws it when the lock is granted.
Invoke(t) ==
    /\ tasks[t].pc = "idle"
    /\ tasks' = [tasks EXCEPT ![t] = [IdleTask EXCEPT !.pc = "waiting", !.op = "command"]]
    /\ UNCHANGED <<child, child_guard, lock, procs, taken, listener, lifecycle>>

\* main.rs 57-68: WindowEvent::CloseRequested runs the hook under block_on.
CloseRequested ==
    /\ tasks[CloseTask].pc = "idle"
    /\ tasks' = [t \in Tasks |->
                    IF t = CloseTask
                    THEN [IdleTask EXCEPT !.pc = "waiting", !.op = "close"]
                    ELSE [tasks[t] EXCEPT !.early = tasks[t].pc = "waiting"]]
    /\ UNCHANGED <<child, child_guard, lock, procs, taken, listener, lifecycle>>

\* Mutant of lock_free: handlers that do not wait for the guard.
lock_free_always == TRUE

\* tokio Mutex::lock: granted only while no guard is alive.
lock_free == lock = NoTask

\* `state.lock().await` completes and the handler op starts.
Acquire(t, op) ==
    /\ tasks[t].pc = "waiting"
    /\ tasks[t].op \in {op, "command"}
    /\ lock_free
    /\ lock' = t
    /\ tasks' = [tasks EXCEPT
                    ![t].op = op,
                    ![t].pc = FirstCall(op),
                    ![t].early = /\ tasks[t].early
                                 /\ tasks[CloseTask].pc = "done"
                                 /\ op \in Starters]
    /\ UNCHANGED <<child, child_guard, procs, taken, listener, lifecycle>>

\* manager.start() in start_server, reconnect_server and the auto-start task.
Start(t) ==
    /\ At(t, "start")
    /\ \E res \in {"AlreadyRunning", "SpawnFailed", "Ok"}, p \in Pids \cup {NoPid} :
          /\ start(res, p)
          /\ Continue(t, [tasks[t] EXCEPT !.pid = p, !.early = FALSE],
                      "start", res)
    /\ UNCHANGED <<child_guard, lock, taken, listener>>

\* Mutant of stop_result: the errors of kill and wait are propagated (`?`).
stop_result_propagating(k, w) ==
    IF k = "err" \/ w = "err" THEN "TerminateFailed" ELSE "Ok"

\* sidecar.rs 181-185: `let _ =` drops the results of kill and wait, and
\* stop() ends with Ok(()).
stop_result(k, w) == "Ok"

\* The history after one more call of stop().
Stopped(h) == IF h \in {"stop", "stop_again"} THEN "stop_again" ELSE "stop"

\* Mutant of Stop: stop() kills and returns without child.wait().
Stop_without_wait(t) ==
    /\ At(t, "stop")
    /\ child_guard = NoTask
    /\ lifecycle' = Stopped(lifecycle)
    /\ IF is_some(child)
       THEN /\ child' = take(child)
            /\ taken' = taken \cup {child}
            /\ \E k \in {"ok", "err"} :
                 /\ IF k = "ok" /\ procs[child] = "running"
                    THEN /\ procs' = [procs EXCEPT ![child] = "exited"]
                         /\ listener' = Unbind(child)
                    ELSE UNCHANGED <<procs, listener>>
                 /\ Continue(t, [tasks[t] EXCEPT !.old = child, !.kill = k],
                             "stop", stop_result(k, "none"))
            /\ UNCHANGED <<child_guard, lock>>
       ELSE /\ Continue(t, tasks[t], "stop", stop_result("none", "none"))
            /\ UNCHANGED <<child, child_guard, lock, procs, taken, listener>>

\* sidecar.rs 176-181: stop() locks the slot, takes the handle out and kills.
\* With an empty slot stop() is over at once.
Stop(t) ==
    /\ At(t, "stop")
    /\ child_guard = NoTask
    /\ lifecycle' = Stopped(lifecycle)
    /\ IF is_some(child)
       THEN /\ child' = take(child)
            /\ taken' = taken \cup {child}
            /\ child_guard' = t
            /\ \E k \in {"ok", "err"} :
                 /\ IF k = "ok" /\ procs[child] = "running"
                    THEN /\ procs' = [procs EXCEPT ![child] = "exited"]
                         /\ listener' = Unbind(child)
                    ELSE UNCHANGED <<procs, listener>>
                 /\ tasks' = [tasks EXCEPT ![t] =
                        [@ EXCEPT !.pc = "stop_wait", !.old = child, !.kill = k]]
            /\ UNCHANGED lock
       ELSE /\ Continue(t, tasks[t], "stop", stop_result("none", "none"))
            /\ UNCHANGED <<child, child_guard, lock, procs, taken, listener>>

\* Mutant of unlock: the guard of the slot outlives stop().
unlock_kept(t) == t

\* sidecar.rs 186: child_guard goes out of scope when stop() returns.
unlock(t) == NoTask

\* sidecar.rs 182-185: child.wait() returns once the process has exited and
\* reaps it, or fails; either way stop() unlocks the slot and returns Ok.
StopWait(t) ==
    /\ At(t, "stop_wait")
    /\ \E w \in {"ok", "err"} :
         /\ IF w = "ok"
            THEN /\ procs[tasks[t].old] = "exited"
                 /\ procs' = [procs EXCEPT ![tasks[t].old] = "reaped"]
            ELSE UNCHANGED procs
         /\ Continue(t, [tasks[t] EXCEPT !.wait = w], "stop",
                     stop_result(tasks[t].kill, w))
    /\ child_guard' = unlock(t)
    /\ UNCHANGED <<child, lock, taken, listener, lifecycle>>

\* Mutant of IsServerRunning: a query that looks at the process (try_wait)
\* and empties the slot when the child has exited.
IsServerRunning_reaping(t) ==
    /\ At(t, "is_running")
    /\ child_guard = NoTask
    /\ IF is_some(child) /\ procs[child] = "exited"
       THEN /\ child' = NoPid
            /\ Continue(t, tasks[t], "is_running", "false")
       ELSE /\ child' = child
            /\ Continue(t, tasks[t], "is_running", IF is_running THEN "true" ELSE "false")
    /\ UNCHANGED <<child_guard, lock, procs, taken, listener, lifecycle>>

\* commands.rs 21-25
IsServerRunning(t) ==
    /\ At(t, "is_running")
    /\ child_guard = NoTask
    /\ Continue(t, tasks[t], "is_running", IF is_running THEN "true" ELSE "false")
    /\ UNCHANGED <<child, child_guard, lock, procs, taken, listener, lifecycle>>

\* sidecar.rs 79-83: one poll of wait_for_ready.
Poll(t) ==
    /\ At(t, "wait_for_ready")
    /\ \E resp \in Send :
         LET rec == [tasks[t] EXCEPT !.polls = @ + 1, !.sent = @ + 1] IN
         IF is_ok(health_check(resp))
         THEN Continue(t, Met(rec, resp), "wait_for_ready", "Ok")
         ELSE tasks' = [tasks EXCEPT ![t] = [rec EXCEPT !.pc = "sleep"]]
    /\ UNCHANGED <<child, child_guard, lock, procs, taken, listener, lifecycle>>

\* sidecar.rs 84-87: the sleep between polls, then the next attempt or the
\* end of the loop.
Sleep(t) ==
    /\ At(t, "sleep")
    /\ LET rec == [tasks[t] EXCEPT !.sleeps = @ + 1] IN
         IF in_range(rec.sleeps)
         THEN tasks' = [tasks EXCEPT ![t] = [rec EXCEPT !.pc = "wait_for_ready"]]
         ELSE Continue(t, rec, "wait_for_ready", "NotReady")
    /\ UNCHANGED <<child, child_guard, lock, procs, taken, listener, lifecycle>>

\* commands.rs 41-46
McpPing(t) ==
    /\ At(t, "health_check")
    /\ \E resp \in Send :
         Continue(t, Met([tasks[t] EXCEPT !.sent = @ + 1], resp),
                  "health_check", health_check(resp))
    /\ UNCHANGED <<child, child_guard, lock, procs, taken, listener, lifecycle>>

\* One request, then the decoding of the body of the response if one came.
RemoteCall(t, call, variant) ==
    /\ At(t, call)
    /\ \E resp \in Send, body \in Body :
         LET rec == [tasks[t] EXCEPT !.sent = @ + 1,
                                     !.body = IF resp = "error" THEN "none" ELSE body] IN
         Continue(t, Met(rec, resp), call, remote_call(variant, resp, body))
    /\ UNCHANGED <<child, child_guard, lock, procs, taken, listener, lifecycle>>

\* commands.rs 48-64
McpLogin(t) == RemoteCall(t, "login", "LoginResult")
\* commands.rs 66-74
McpLogout(t) == RemoteCall(t, "logout", "LogoutResult")
\* commands.rs 76-85
McpGetAuthStatus(t) == RemoteCall(t, "get_auth_status", "AuthStatus")

\* The handler returns: the guard is dropped and the caller has its reply.
\* A command may be invoked again; the auto-start task and the close hook
\* run once.
Return(t) ==
    /\ At(t, "return")
    /\ lock' = NoTask
    /\ tasks' = [tasks EXCEPT ![t] =
                    IF t \in CmdTasks THEN IdleTask
                    ELSE [IdleTask EXCEPT !.pc = "done", !.op = tasks[t].op]]
    /\ UNCHANGED <<child, child_guard, procs, taken, listener, lifecycle>>

Next ==
    \/ \E t \in CmdTasks : Invoke(t)
    \/ CloseRequested
    \/ \E t \in Tasks, op \in Handlers : Acquire(t, op)
    \/ \E t \in Tasks : Start(t)
    \/ \E t \in Tasks : Stop(t)
    \/ \E t \in Tasks : StopWait(t)
    \/ \E t \in Tasks : IsServerRunning(t)
    \/ \E t \in Tasks : Poll(t)
    \/ \E t \in Tasks : Sleep(t)
    \/ \E t \in Tasks : McpPing(t)
    \/ \E t \in Tasks : McpLogin(t)
    \/ \E t \in Tasks : McpLogout(t)
    \/ \E t \in Tasks : McpGetAuthStatus(t)
    \/ \E t \in Tasks : Return(t)
    \/ \E p \in Pids : ChildExit(p)
    \/ \E p \in Pids : ChildBind(p)
    \/ ForeignBind
    \/ ForeignRelease

Spec == Init /\ [][Next]_vars

\* A step of caller t inside its handler.
HandlerStep(t) ==
    \/ Start(t) \/ Stop(t) \/ StopWait(t) \/ IsServerRunning(t)
    \/ Poll(t) \/ Sleep(t)
    \/ McpPing(t) \/ McpLogin(t) \/ McpLogout(t) \/ McpGetAuthStatus(t)
    \/ Return(t)

\* Scheduling: the runtime keeps polling a task that can make a step (every
\* request has a timeout, the sleep is finite, kill and wait return), and the
\* tokio Mutex serves its waiters in order, so a caller that waits while the
\* lock is released again and again is granted it.
Fairness ==
    \A t \in Tasks :
        /\ WF_vars(HandlerStep(t))
        /\ SF_vars(\E op \in Handlers : Acquire(t, op))

FairSpec == Spec /\ Fairness

TypeOK ==
    /\ child \in Pids \cup {NoPid}
    /\ child_guard \in Tasks \cup {NoTask}
    /\ lock \in Tasks \cup {NoTask}
    /\ listener \in Pids \cup {NoPid, Foreign}
    /\ taken \subseteq Pids
    /\ lifecycle \in {"none", "start", "stop", "stop_again"}

\* ================================================================ claims
\* The children that were spawned and whose handle stop() has not taken.
Held == { p \in Pids : procs[p] # "none" } \ taken

\* The callers that are inside their handler.
Active == { t \in Tasks : tasks[t].pc \notin {"idle", "waiting", "done"} }

Returned(t, op) == tasks[t].pc = "return" /\ tasks[t].op = op

Polling(t) == tasks[t].pc \in {"wait_for_ready", "sleep"}

\* C1: whatever the interleaving of the auto-start task, the commands and the
\* close hook, at most one spawned child has not been stopped, and it is the
\* one in the handle slot.
C1_AtMostOneChild ==
    /\ Cardinality(Held) <= 1
    /\ Held = IF child = NoPid THEN {} ELSE {child}

\* A second child runs after the first was stopped, and a caller that found
\* the slot taken was refused while another caller waits for the lock.
C1_Witness ==
    /\ Cardinality(Held) = 1
    /\ taken # {}
    /\ \E t, u \in Tasks :
         /\ t # u
         /\ tasks[t].pc = "return" /\ tasks[t].res = "AlreadyRunning"
         /\ tasks[u].pc = "waiting"

\* C2: a start() made when the last lifecycle call was a start() that
\* succeeded fails with AlreadyRunning, spawns nothing and leaves the slot,
\* the processes and the Running state as they were.
C2_SecondStartFails ==
    [][ \A t \in Tasks :
          (At(t, "start") /\ ~At(t, "start")' /\ lifecycle = "start")
            => /\ tasks'[t].pc = "return"
               /\ tasks'[t].res = "AlreadyRunning"
               /\ tasks'[t].pid = NoPid
               /\ child # NoPid
               /\ child' = child
               /\ procs' = procs
               /\ lifecycle' = "start" ]_vars

\* start_server was refused: the child of the earlier start() is in the slot.
C2_Witness ==
    \E t \in Tasks :
        /\ Returned(t, "start_server")
        /\ tasks[t].res = "AlreadyRunning"
        /\ lifecycle = "start"
        /\ child # NoPid

\* C3: every stop() leaves the slot empty and returns Ok, and a stop() that
\* follows a stop() does so at once, with no kill and no wait.
C3_StopIdempotent ==
    [][ \A t \in Tasks :
          ((At(t, "stop") \/ At(t, "stop_wait")) /\ tasks'[t] # tasks[t])
            => /\ child' = NoPid
               /\ tasks'[t].pc = "return" => tasks'[t].res = "Ok"
               /\ (At(t, "stop") /\ lifecycle \in {"stop", "stop_again"})
                    => /\ tasks'[t].pc # "stop_wait"
                       /\ tasks'[t].kill = "none" /\ tasks'[t].wait = "none"
                       /\ procs' = procs /\ taken' = taken
                       /\ child = NoPid ]_vars

\* stop_server returned Ok without a kill, right after a stop() that did kill.
C3_Witness ==
    \E t \in Tasks :
        /\ Returned(t, "stop_server")
        /\ tasks[t].res = "Ok"
        /\ tasks[t].kill = "none"
        /\ lifecycle = "stop_again"
        /\ taken # {}
        /\ child = NoPid

\* C4: is_running() is false before any spawn, true after a start() that
\* succeeded whether or not the child serves its port, and the answer of
\* is_server_running tells whether the slot holds a handle.
C4_IsRunning ==
    /\ (\A p \in Pids : procs[p] = "none") => ~is_running
    /\ lifecycle = "start" => is_running
    /\ \A t \in Tasks :
         Returned(t, "is_server_running")
           => tasks[t].res = (IF child # NoPid THEN "true" ELSE "false")

\* is_server_running answers true while nothing serves the port.
C4_Witness ==
    \E t \in Tasks :
        /\ Returned(t, "is_server_running")
        /\ tasks[t].res = "true"
        /\ lifecycle = "start"
        /\ listener = NoPid

\* C5: a caller that is inside its handler holds the lock, so no two callers
\* are inside a handler at once.
C5_Serialized ==
    /\ \A t \in Active : lock = t
    /\ Cardinality(Active) <= 1

\* A caller sleeps inside wait_for_ready while a command and the close hook
\* wait for the lock.
C5_Witness ==
    \E t \in Tasks :
        /\ tasks[t].pc = "sleep"
        /\ tasks[CloseTask].pc = "waiting"
        /\ \E u \in CmdTasks : u # t /\ tasks[u].pc = "waiting"

\* C6: while wait_for_ready polls, every poll so far has failed and was
\* followed by a sleep; it returns Ok on the first poll that meets a success
\* status, poll k+1 after k failures, within the 50 attempts.
C6_ReadyAtFirstSuccess ==
    \A t \in Tasks :
        /\ tasks[t].pc = "wait_for_ready" => tasks[t].polls = tasks[t].sleeps
        /\ tasks[t].pc = "sleep" => tasks[t].polls = tasks[t].sleeps + 1
        /\ (tasks[t].pc = "return" /\ tasks[t].polls > 0 /\ tasks[t].res = "Ok")
             => /\ tasks[t].polls = tasks[t].sleeps + 1
                /\ tasks[t].polls <= max_attempts
                /\ tasks[t].resp = "2xx"
                /\ tasks[t].by # NoPid

\* reconnect_server returned Ok at poll 11, after 10 polls that failed.
C6_Witness ==
    \E t \in Tasks :
        /\ Returned(t, "reconnect_server")
        /\ tasks[t].res = "Ok"
        /\ tasks[t].sleeps = 10
        /\ tasks[t].polls = 11

\* C7: wait_for_ready never makes a 51st health check, and it gives up with
\* NotReady exactly when 50 polls have failed, each followed by its sleep
\* (resp keeps only a response that made a poll succeed: there was none).
C7_BoundedPolling ==
    \A t \in Tasks :
        /\ tasks[t].polls <= max_attempts
        /\ tasks[t].pc = "wait_for_ready" => tasks[t].sleeps < max_attempts
        /\ tasks[t].res = "NotReady"
             <=> (tasks[t].pc = "return" /\ tasks[t].sleeps = max_attempts)
        /\ tasks[t].res = "NotReady"
             => tasks[t].polls = max_attempts /\ tasks[t].resp = "none"

\* The auto-start task gave up after 50 polls.
C7_Witness ==
    /\ Returned(AutoTask, "auto_start")
    /\ tasks[AutoTask].res = "NotReady"
    /\ tasks[AutoTask].polls = max_attempts

\* C8 (as claimed): reconnect_server invoked while Running returns Ok only
\* when the old process is no longer running, a new one was spawned, and the
\* health check that succeeded was answered by that new process.
C8_AnsweredByNewInstance ==
    \A t \in Tasks :
        (Returned(t, "reconnect_server") /\ tasks[t].old # NoPid /\ tasks[t].res = "Ok")
          => /\ procs[tasks[t].old] # "running"
             /\ tasks[t].pid \notin {NoPid, tasks[t].old}
             /\ tasks[t].by = tasks[t].pid

\* C9: a handler returns SpawnFailed only from start(), with no poll made, no
\* process spawned and the slot empty; and wait_for_ready runs only in a
\* handler whose start() has spawned a process.
C9_SpawnFailureSurfaces ==
    \A t \in Tasks :
        /\ Polling(t) => tasks[t].pid # NoPid
        /\ (tasks[t].pc = "return" /\ tasks[t].polls > 0) => tasks[t].pid # NoPid
        /\ tasks[t].res = "SpawnFailed"
             => /\ tasks[t].pc = "return"
                /\ tasks[t].op \in {"start_server", "reconnect_server", "auto_start"}
                /\ tasks[t].polls = 0
                /\ tasks[t].pid = NoPid
                /\ child = NoPid

\* reconnect_server stopped a running child and then failed to spawn.
C9_Witness ==
    \E t \in Tasks :
        /\ Returned(t, "reconnect_server")
        /\ tasks[t].res = "SpawnFailed"
        /\ tasks[t].old # NoPid
        /\ child = NoPid

\* C10 (as claimed): a remote operation that returns while the slot is empty
\* returns a transport-level error.
C10_NoResultWhileStopped ==
    \A t \in Tasks :
        ( /\ tasks[t].pc = "return"
          /\ tasks[t].op \in {"mcp_ping", "mcp_login", "mcp_logout", "mcp_get_auth_status"}
          /\ child = NoPid )
          => tasks[t].res \in {"Unreachable", "RequestFailed"}

\* A caller is inside stop() with the handle of p: killed, not yet waited for.
Stopping(p) == \E t \in Tasks : tasks[t].pc = "stop_wait" /\ tasks[t].old = p

\* A step in which caller t sends a health check.
HealthCheckStep(t) ==
    \/ At(t, "wait_for_ready") /\ tasks'[t].polls = tasks[t].polls + 1
    \/ At(t, "health_check") /\ ~At(t, "health_check")'

\* C11 (as claimed): every running child is the one in the slot (or the one
\* stop() is terminating), a process whose handle stop() took and dropped has
\* been reaped, and no health check is sent while the child in the slot is
\* dead.
C11_NoOrphan ==
    [][ /\ \A p \in Pids :
             /\ procs'[p] = "running" => (child' = p \/ Stopping(p)')
             /\ (p \in taken' /\ ~Stopping(p)') => procs'[p] = "reaped"
        /\ \A t \in Tasks :
             (HealthCheckStep(t) /\ child # NoPid) => procs[child] = "running" ]_vars

\* C12: the close hook, once requested, gets the lock and returns, also when
\* another handler holds the lock at that time; when it returns, stop() has
\* returned Ok, a child that was in the slot has been killed and waited for,
\* and the slot is empty.
C12_CloseHookCompletes ==
    /\ (tasks[CloseTask].pc = "waiting") ~> (tasks[CloseTask].pc = "return")
    /\ [](Returned(CloseTask, "close")
            => /\ child = NoPid
               /\ tasks[CloseTask].res = "Ok"
               /\ tasks[CloseTask].old # NoPid
                    => tasks[CloseTask].kill # "none" /\ tasks[CloseTask].wait # "none")

\* The hook returned after it stopped the child that the auto-start task,
\* polling when the hook was requested, had spawned.
C12_Witness ==
    /\ Returned(CloseTask, "close")
    /\ tasks[CloseTask].old # NoPid
    /\ tasks[CloseTask].wait = "ok"
    /\ tasks[AutoTask].pc = "done"
    /\ child = NoPid

\* C13: stop_server and the close hook return Ok with the slot empty whatever
\* kill and wait returned: stop() reports no failure of the termination.
C13_StopSwallowsErrors ==
    \A t \in Tasks :
        /\ (tasks[t].pc = "return" /\ tasks[t].op \in {"stop_server", "close"})
             => tasks[t].res = "Ok" /\ child = NoPid
        /\ tasks[t].res # "TerminateFailed"
        /\ (tasks[t].op = "reconnect_server" /\ tasks[t].pc = "start"
              /\ tasks[t].pid = NoPid)
             => child = NoPid

\* stop_server returned Ok although both the kill and the wait failed.
C13_Witness ==
    \E t \in Tasks :
        /\ Returned(t, "stop_server")
        /\ tasks[t].res = "Ok"
        /\ tasks[t].kill = "err"
        /\ tasks[t].wait = "err"
        /\ child = NoPid

\* commands.rs 48-85: the result variant of each passthrough command.
ResultVariant(op) ==
    CASE op = "mcp_login" -> "LoginResult"
      [] op = "mcp_logout" -> "LogoutResult"
      [] op = "mcp_get_auth_status" -> "AuthStatus"

\* C14: mcp_login, mcp_logout and mcp_get_auth_status return after exactly one
\* request: RequestFailed iff the transport failed, DecodeFailed iff a
\* response came whose body does not decode, and the result variant iff a
\* response came whose body decodes.
C14_RemoteCallOutcome ==
    \A t \in Tasks :
        (tasks[t].pc = "return"
           /\ tasks[t].op \in {"mcp_login", "mcp_logout", "mcp_get_auth_status"})
          => /\ tasks[t].sent = 1
             /\ tasks[t].res = "RequestFailed" <=> tasks[t].resp = "error"
             /\ tasks[t].res = "DecodeFailed"
                  <=> (tasks[t].resp # "error" /\ tasks[t].body = "malformed")
             /\ tasks[t].res = ResultVariant(tasks[t].op)
                  <=> (tasks[t].resp # "error" /\ tasks[t].body = "valid")

\* mcp_login met a response whose body did not decode.
C14_Witness ==
    \E t \in Tasks :
        /\ Returned(t, "mcp_login")
        /\ tasks[t].res = "DecodeFailed"
        /\ tasks[t].resp = "2xx"
        /\ tasks[t].sent = 1

\* C15: mcp_ping answers "pong" iff a response came with a status of the
\* success class, HealthCheckFailed iff a response came with another status,
\* and Unreachable iff the transport failed or timed out.
C15_HealthCheckOutcome ==
    \A t \in Tasks :
        Returned(t, "mcp_ping")
          => /\ tasks[t].sent = 1
             /\ tasks[t].res = "pong" <=> tasks[t].resp = "2xx"
             /\ tasks[t].res = "HealthCheckFailed" <=> tasks[t].resp = "5xx"
             /\ tasks[t].res = "Unreachable" <=> tasks[t].resp = "error"
             /\ tasks[t].resp \in {"2xx", "5xx", "error"}

\* mcp_ping met a response outside the success class.
C15_Witness ==
    \E t \in Tasks :
        /\ Returned(t, "mcp_ping")
        /\ tasks[t].res = "HealthCheckFailed"
        /\ tasks[t].resp = "5xx"
        /\ tasks[t].by # NoPid

\* The calls that only query or talk to the child.
QueryCalls ==
    { "is_running", "health_check", "wait_for_ready", "sleep",
      "login", "logout", "get_auth_status" }

\* C16: a step of is_running, health_check, wait_for_ready, login, logout or
\* get_auth_status, whatever its outcome, leaves the slot, the processes and
\* the lifecycle history as they were; the slot changes only in a step of
\* start() or stop().
C16_QueriesKeepSlot ==
    [][ /\ \A t \in Tasks :
             (tasks[t].pc \in QueryCalls /\ tasks'[t] # tasks[t])
               => /\ child' = child
                  /\ taken' = taken
                  /\ procs' = procs
                  /\ lifecycle' = lifecycle
        /\ child' # child => \E t \in Tasks : At(t, "start") \/ At(t, "stop") ]_vars

\* is_server_running answered true for a child that has exited: the query
\* left the dead child's handle in the slot.
C16_Witness ==
    \E t \in Tasks :
        /\ Returned(t, "is_server_running")
        /\ tasks[t].res = "true"
        /\ child # NoPid
        /\ procs[child] = "exited"

\* C17: a process comes into existence only in a step of start() made with
\* the slot empty; when the child exits on its own its handle stays in the
\* slot and is_running() stays true; and a start() made while the dead
\* child's handle is in the slot fails with AlreadyRunning and spawns nothing.
C17_NoRestartOnCrash ==
    [][ /\ \A p \in Pids :
             (procs[p] = "none" /\ procs'[p] # "none")
               => /\ child = NoPid
                  /\ child' = p
                  /\ \E t \in Tasks : At(t, "start") /\ tasks'[t].pid = p
        /\ (procs' # procs /\ tasks' = tasks)
             => child' = child /\ (is_running <=> is_running')
        /\ \A t \in Tasks :
             (At(t, "start") /\ ~At(t, "start")'
                /\ child # NoPid /\ procs[child] = "exited")
               => /\ tasks'[t].res = "AlreadyRunning"
                  /\ child' = child
                  /\ procs' = procs ]_vars

\* start_server was refused because of the handle of a child that has exited.
C17_Witness ==
    \E t \in Tasks :
        /\ Returned(t, "start_server")
        /\ tasks[t].res = "AlreadyRunning"
        /\ child # NoPid
        /\ procs[child] = "exited"
        /\ is_running

\* C18: a handler whose wait_for_ready has used up its attempts returns
\* NotReady with the process it spawned still in the slot: is_running() is
\* true and start() would be refused.
C18_NotReadyLeavesRunning ==
    \A t \in Tasks :
        /\ tasks[t].sleeps = max_attempts
             => /\ tasks[t].pc = "return"
                /\ tasks[t].res = "NotReady"
                /\ tasks[t].op \in {"reconnect_server", "auto_start"}
                /\ tasks[t].pid # NoPid
                /\ child = tasks[t].pid
                /\ is_running
                /\ already_running
                /\ lifecycle = "start"
        /\ tasks[t].res = "NotReady" => tasks[t].sleeps = max_attempts

\* reconnect_server replaced a running child and gave up waiting for the
\* new one, which stays in the slot.
C18_Witness ==
    \E t \in Tasks :
        /\ Returned(t, "reconnect_server")
        /\ tasks[t].res = "NotReady"
        /\ tasks[t].old # NoPid
        /\ child = tasks[t].pid
        /\ child # NoPid

\* C19: the guard of the slot is held only by the holder of the supervisor
\* lock and only inside stop(), never at a suspension point; the supervisor
\* lock is held only by a caller inside its handler; and no caller stays
\* forever waiting for the lock or inside its handler: each one is again and
\* again back where it holds nothing (idle, or finished for good).
C19_NoDeadlock ==
    /\ [](child_guard # NoTask
            => lock = child_guard /\ tasks[child_guard].pc = "stop_wait")
    /\ [](lock # NoTask => lock \in Active)
    /\ \A t \in Tasks : []<>(tasks[t].pc \in {"idle", "done"})

\* reconnect_server is inside stop(), holding both locks, while the
\* auto-start task and the close hook wait for the supervisor lock.
C19_Witness ==
    \E t \in CmdTasks :
        /\ tasks[t].op = "reconnect_server"
        /\ tasks[t].pc = "stop_wait"
        /\ lock = t
        /\ child_guard = t
        /\ tasks[AutoTask].pc = "waiting"
        /\ tasks[CloseTask].pc = "waiting"

\* C20: once the close hook has completed, the start() of a caller that was
\* already waiting for the supervisor lock when the window was asked to close
\* spawns no process.
C20_StaysStopped ==
    [][ \A t \in Tasks :
          (tasks[CloseTask].pc = "done" /\ tasks[t].early /\ At(t, "start"))
              => tasks'[t].pid = NoPid ]_vars

====
